---- MODULE Spec2Model ----
(***************************************************************************)
(* Feed traversal and per-item engagement of the social-media agent.       *)
(*                                                                         *)
(* BaseAgent.run (agents/base_agent.py) logs in, then repeatedly pulls the *)
(* next post from BaseScraper.get_next_post (core/scraper/base_scraper.py),*)
(* asks GeminiEngine.generate_response for a reaction and a comment, and   *)
(* hands both to EngagementEngine.engage.  Each of the three stages runs   *)
(* under asyncio.wait_for(..., timeout=30).  The coroutines are modelled   *)
(* as one sequential control position `pc`: an action is the code between  *)
(* two suspension points (await asyncio.sleep / run_in_executor), which    *)
(* are the only places where the timeout can cancel a stage.               *)
(*                                                                         *)
(* The page is the environment: the elements found, whether they are       *)
(* displayed, what extraction yields, how the document height moves on a   *)
(* scroll, and which driver call fails are drawn from small sets.          *)
(***************************************************************************)
EXTENDS Integers, Sequences, FiniteSets, TLC

\* ---------------------------------------------------------------- bounds
\* Size of the feed: the page elements are 1..NumElements in DOM order.
NumElements == 3
\* Target count of BaseAgent.run (max_posts = 30 at base_agent.py:72),
\* scaled down so that "target reached" is within reach of the feed.
max_posts == 3
\* How many scroll steps can still change the page (new elements or a new
\* document height): afterwards the feed has stopped producing.
FeedBudget == 1
\* Document heights are 1..MaxHeight.
MaxHeight == 2
\* The texts given to _parse_response have 1..MaxLines lines.
MaxLines == 2
\* get_posts is called with a count of 0..MaxCount.
MaxCount == 2

\* ------------------------------------------------------ program constants
max_scroll_attempts == 5
StageTimeout == 30
max_retries == 3

Elements == 1..NumElements
None == 0
Heights == 1..MaxHeight

VARIABLES
    pc,               \* control position of run and of the coroutine it awaits
    driver,           \* BaseScraper.driver: "none" | "open" | "closed"
    login_check,      \* which check of login was positive: "none" | "rate_limit" | "login_error"
    login_exc,        \* exception type that left BaseScraper.login ("none": it returned)
    login_thrown,     \* the exception raised inside the try block of login (NotThrown: none)
    reaction_call,    \* _add_reaction: the reaction asked for and what the page does
    reaction_result,  \* _add_reaction: the button clicked and the exception raised
    config,           \* main: Config() as the environment makes it
    main_pc,          \* control position of main
    active_agents,    \* main: the platforms offered for selection
    selected_platform,\* main: the platform chosen
    platform,         \* create_agent: the platform asked for
    agent,            \* the agent constructed by AgentFactory.create_agent
    main_raised,      \* exception on its way out of main or of create_agent
    posts_processed,  \* BaseAgent.run local
    post,             \* result of the last get_next_post (None or an element)
    processed_posts,  \* BaseScraper.processed_posts: set of element ids
    current_posts,    \* get_next_post local: the elements found by find_elements
    idx,              \* position of the for loop in current_posts
    scroll_attempt,   \* get_next_post local
    last_height,      \* get_next_post local
    elapsed,          \* seconds slept inside the running wait_for
    attempt,          \* _generate_safely loop variable
    ai_response,      \* "none" | "response"
    fault,            \* page condition of the item being engaged: the sub-step that fails
    reacted,          \* the reaction click of the current item was performed
    commented,        \* the comment of the current item was submitted
    swallowed,        \* a CancelledError was caught by a bare except inside engage
    last,             \* how the last loop iteration ended
    exit,             \* why the while loop of run was left
    raised,           \* exception that propagates out of run ("none": run returns)
    yielded,          \* history: the set of elements returned by get_next_post
    gen_skipped,      \* history: the last item whose generation failed or timed out (None: no item)
    content,          \* page: the text extraction found for each element
    loaded,           \* page: elements 1..loaded are in the DOM
    height,           \* page: document.body.scrollHeight
    budget,           \* page: remaining scroll steps that change the page
    response,         \* argument of a call of GeminiEngine._parse_response
    parsed,           \* what that call returned (NoParse: not called yet)
    session,          \* browser: "valid" | "invalid" (what _is_session_valid would find)
    probes,           \* history: calls of _is_session_valid
    logins,           \* history: calls of BaseScraper.login
    waited,           \* history: seconds slept since the last successful login
    count,            \* argument of a call of BaseScraper.get_posts
    posts,            \* get_posts local: the posts collected
    processed_elements, \* get_posts local: ids of the elements collected
    orphaned,         \* executor thread: a model call goes on after its stage was cancelled
    passed            \* history: the displayed elements the for loop passed over

pageVars == <<content, loaded, height, budget>>
gnpVars  == <<processed_posts, current_posts, idx, scroll_attempt, last_height>>
engVars  == <<fault, reacted, commented, swallowed>>
genVars  == <<attempt, ai_response>>
loginVars == <<driver, login_check, login_exc, login_thrown>>
vars == <<pc, driver, login_check, login_exc, login_thrown, posts_processed, post,
          processed_posts, current_posts, idx, scroll_attempt, last_height,
          elapsed, attempt, ai_response, fault, reacted, commented, swallowed,
          last, exit, raised, yielded, gen_skipped, content, loaded, height,
          budget, response, parsed, session, probes, logins, waited, count,
          posts, processed_elements, orphaned, passed, reaction_call,
          reaction_result, config, main_pc, active_agents, selected_platform,
          platform, agent, main_raised>>

\* What the stages leave behind when they end: locals that no longer exist.
histVars == <<yielded, gen_skipped>>

\* The call of _parse_response that is looked at on its own.
parseVars == <<response, parsed>>
\* The call of _add_reaction that is looked at on its own.
reactVars == <<reaction_call, reaction_result>>
\* main and AgentFactory.
mainVars == <<config, main_pc, active_agents, selected_platform, platform,
              agent, main_raised>>
\* What run and get_posts leave alone.
unitVars == <<reactVars, mainVars>>
\* The session and what was done about it.
sessionVars == <<session, probes, logins, waited>>
\* The call of get_posts that is looked at on its own.
getPostsVars == <<count, posts, processed_elements>>

NotPassed == [e \in Elements |-> "no"]
NoFault == [at |-> "none", kind |-> "none"]

\* No exception was raised inside login.
NotThrown == [type |-> "none", webdriver |-> FALSE, rate_text |-> FALSE]
NoResult == [outcome |-> "none", stage |-> "none", cause |-> "none", pause |-> 0]
NoParse == [reaction |-> "none", comment |-> [kind |-> "none", at |-> 0]]
Unparsable == <<>>

\* The agent, its scraper and the page before run is called.
RunInit ==
    /\ pc = "start"
    /\ driver = "none"
    /\ login_check = "none"
    /\ login_exc = "none"
    /\ login_thrown = NotThrown
    /\ posts_processed = 0
    /\ post = None
    /\ processed_posts = {}
    /\ current_posts = <<>>
    /\ idx = 1
    /\ scroll_attempt = 0
    /\ last_height = 0
    /\ elapsed = 0
    /\ attempt = 0
    /\ ai_response = "none"
    /\ fault = NoFault
    /\ reacted = FALSE
    /\ commented = FALSE
    /\ swallowed = FALSE
    /\ last = NoResult
    /\ exit = "none"
    /\ raised = "none"
    /\ yielded = {}
    /\ gen_skipped = None
    /\ content = [e \in Elements |-> "unknown"]
    /\ loaded = 0
    /\ height = 1
    /\ budget = FeedBudget
    /\ orphaned = FALSE
    /\ passed = NotPassed

\* A scraper with a live browser session on which get_posts is not called.
ScraperIdle ==
    /\ session = "valid"
    /\ probes = 0
    /\ logins = 0
    /\ waited = 0
    /\ count = 0
    /\ posts = <<>>
    /\ processed_elements = {}

\* No call of _add_reaction is looked at on its own.
NoReactionCall == [type |-> "none"]
NoReaction == [clicked |-> "none", raised |-> "none"]
ReactIdle ==
    /\ reaction_call = NoReactionCall
    /\ reaction_result = NoReaction

\* main is not looked at: the agent was constructed by its caller.
NoConfig == [api_key |-> FALSE, platforms |-> <<>>]
MainIdle ==
    /\ config = NoConfig
    /\ main_pc = "idle"
    /\ active_agents = <<>>
    /\ selected_platform = "none"
    /\ platform = "none"
    /\ agent = "none"
    /\ main_raised = "none"

UnitIdle == ReactIdle /\ MainIdle

\* Everything that belongs to run, get_next_post and get_posts.
agentVars == <<pc, loginVars, posts_processed, post, gnpVars, elapsed,
               genVars, engVars, last, exit, raised, histVars, pageVars,
               sessionVars, getPostsVars, orphaned, passed>>

Init ==
    /\ RunInit
    /\ response = Unparsable
    /\ parsed = NoParse
    /\ ScraperIdle
    /\ UnitIdle

\* ------------------------------------------------------------------ login
\* The first step of BaseScraper.login that fails, as the page decides.
\* "rate_limit" and "login_error" are positive results of the platform hooks
\* check_for_rate_limit / check_for_login_errors (the base class returns
\* False for both; a platform scraper implements the detection).
LoginFailures == {"none", "driver_init", "webdriver", "no_form",
                  "rate_limit", "login_error"}

\* The exception raised inside the try block of login for a failing step:
\* its type, whether it is a selenium WebDriverException, and whether
\* str(e).lower() contains "rate limit".  The text of a driver error is
\* the driver's (t: it mentions a rate limit); initialize_driver copies the
\* text of the error it wraps (base_scraper.py:50-52); the other three
\* texts are fixed: the AttributeError of a form field that is None
\* (wait_for_element returns None, lines 113-115), "Login rate limit
\* detected" and "Invalid credentials or login failed".
login_raises(f, t) ==
    CASE f = "driver_init" -> [type |-> "ScrapingError", webdriver |-> FALSE, rate_text |-> t]
      [] f = "webdriver"   -> [type |-> "WebDriverException", webdriver |-> TRUE, rate_text |-> t]
      [] f = "no_form"     -> [type |-> "AttributeError", webdriver |-> FALSE, rate_text |-> FALSE]
      [] f = "rate_limit"  -> [type |-> "RateLimitError", webdriver |-> FALSE, rate_text |-> TRUE]
      [] f = "login_error" -> [type |-> "AuthenticationError", webdriver |-> FALSE, rate_text |-> FALSE]

\* Mutant of login_except: the text is looked at before the type.
login_except_text_first(e) ==
    IF e.rate_text THEN "RateLimitError"
    ELSE IF e.webdriver THEN "NetworkError"
    ELSE "ScrapingError"

\* The except clauses of login: what reaches the caller for an exception
\* raised inside the try block.
login_except(e) ==
    IF e.webdriver THEN "NetworkError"
    ELSE IF e.rate_text THEN "RateLimitError"
    ELSE "ScrapingError"

\* Mutant of run_reraises: the error is logged and run carries on.
run_carries_on(e) ==
    /\ raised' = raised
    /\ pc' = "settle"

\* The outer handler of run: except Exception as e: log, raise; the finally
\* block comes next (base_agent.py:129-132).
run_reraises(e) ==
    /\ raised' = e
    /\ pc' = "finally"

\* Mutant of after_login: the pause is left out.
after_login_no_pause(caller) ==
    IF caller = "run" THEN "loop" ELSE "gp_feed_wait"

\* What follows a login that returned: await asyncio.sleep(10) in run
\* (base_agent.py:67-69) as in get_posts (base_scraper.py:133-134).
after_login(caller) ==
    IF caller = "run" THEN "settle" ELSE "gp_settle"

\* BaseAgent.run lines 62-69 with BaseScraper.login: a failed login is
\* logged and re-raised by the outer except of run, which then reaches the
\* finally block.
Login ==
    /\ pc = "start"
    /\ \E f \in LoginFailures, t \in BOOLEAN :
        /\ login_check' = IF f \in {"rate_limit", "login_error"} THEN f ELSE "none"
        /\ driver' = IF f = "driver_init" THEN driver ELSE "open"
        /\ IF f = "none"
             THEN /\ login_exc' = "none"
                  /\ login_thrown' = NotThrown
                  /\ raised' = raised
                  /\ pc' = after_login("run")
             ELSE /\ login_exc' = login_except(login_raises(f, t))
                  /\ login_thrown' = login_raises(f, t)
                  /\ run_reraises(login_except(login_raises(f, t)))
    /\ UNCHANGED <<posts_processed, post, gnpVars, elapsed, genVars, engVars,
                   last, exit, histVars, pageVars>>
    /\ UNCHANGED <<parseVars, unitVars>>
    /\ UNCHANGED getPostsVars
    /\ UNCHANGED orphaned
    /\ UNCHANGED passed
    /\ logins' = logins + 1
    /\ waited' = 0
    /\ UNCHANGED <<session, probes>>

\* The pause after a successful login: await asyncio.sleep(10)
\* (base_agent.py:69, base_scraper.py:134).
settle_delay == 10

\* await asyncio.sleep(10) after login; the feed page has rendered some
\* prefix of its elements by then.
Settle ==
    /\ pc = "settle"
    /\ pc' = "loop"
    /\ \E n \in 0..NumElements : loaded' = n
    /\ UNCHANGED <<loginVars, posts_processed, post, gnpVars, elapsed, genVars,
                   engVars, last, exit, raised, histVars, content, height, budget>>
    /\ UNCHANGED <<parseVars, unitVars>>
    /\ UNCHANGED getPostsVars
    /\ UNCHANGED orphaned
    /\ UNCHANGED passed
    /\ waited' = settle_delay
    /\ UNCHANGED <<session, probes, logins>>


\* --------------------------------------------------- the handlers of run
\* Mutant of timeout_handler: break where the code says continue.
timeout_breaks(stage) ==
    /\ last' = [outcome |-> "timeout", stage |-> stage, cause |-> "TimeoutError", pause |-> 0]
    /\ pc' = "finally"

\* except asyncio.TimeoutError: log, continue (base_agent.py:120-122).
timeout_handler(stage) ==
    /\ last' = [outcome |-> "timeout", stage |-> stage, cause |-> "TimeoutError", pause |-> 0]
    /\ pc' = "loop"

\* Mutant of error_handler: break where the code says continue.
error_breaks(stage, cause) ==
    /\ last' = [outcome |-> "error", stage |-> stage, cause |-> cause, pause |-> 0]
    /\ pc' = "finally"

\* except Exception: log, continue (base_agent.py:123-125).
error_handler(stage, cause) ==
    /\ last' = [outcome |-> "error", stage |-> stage, cause |-> cause, pause |-> 0]
    /\ pc' = "loop"

\* if not post: log "No more posts found", break (base_agent.py:85-87).
no_post_break(cause) ==
    /\ post' = None
    /\ last' = [outcome |-> "end", stage |-> "pull", cause |-> cause, pause |-> 0]
    /\ exit' = "no_more_posts"
    /\ pc' = "finally"

\* The awaited coroutine resumes from asyncio.sleep(d): it can only do so
\* while the 30 seconds of the enclosing wait_for have not run out.  Once a
\* bare except has swallowed the cancellation, wait_for just waits for the
\* coroutine to finish.
CanResume(d) == swallowed \/ elapsed + d <= StageTimeout
Slept(d) == IF swallowed THEN elapsed ELSE elapsed + d

\* The locals of a get_next_post call end with the call.
gnp_ends ==
    /\ current_posts' = <<>>
    /\ idx' = 1
    /\ scroll_attempt' = 0
    /\ last_height' = 0
    /\ elapsed' = 0

\* ------------------------------------------------------------- run loop
\* Mutant of keep_pulling: <= where the code says <.
keep_pulling_once_more(n) == n <= max_posts

\* while posts_processed < max_posts (base_agent.py:74).
keep_pulling(n) == n < max_posts

\* while posts_processed < max_posts: call get_next_post under wait_for;
\* the helpers and the local counters of get_next_post are initialised
\* (base_agent.py:74-82, base_scraper.py:216-224).  The per-item state of
\* the previous iteration is gone.
LoopHead ==
    /\ pc = "loop"
    /\ IF keep_pulling(posts_processed)
         THEN /\ pc' = "gnp_enum"
              /\ exit' = exit
         ELSE /\ pc' = "finally"
              /\ exit' = "target"
    /\ scroll_attempt' = 0
    /\ elapsed' = 0
    /\ last' = NoResult
    /\ attempt' = 0
    /\ ai_response' = "none"
    /\ fault' = NoFault
    /\ reacted' = FALSE
    /\ commented' = FALSE
    /\ swallowed' = FALSE
    /\ post' = None
    /\ UNCHANGED <<loginVars, posts_processed, processed_posts,
                   current_posts, idx, last_height, raised, histVars, pageVars>>
    /\ UNCHANGED <<parseVars, unitVars>>
    /\ UNCHANGED getPostsVars
    /\ UNCHANGED orphaned
    /\ UNCHANGED passed
    /\ UNCHANGED sessionVars

\* ------------------------------------------------------- get_next_post
\* Mutant of keep_scrolling: <= where the code says <.
keep_scrolling_once_more(a) == a <= max_scroll_attempts

\* while scroll_attempt < max_scroll_attempts (base_scraper.py:226).
keep_scrolling(a) == a < max_scroll_attempts

\* The while condition and find_elements (base_scraper.py:226-229).
enumerate_posts ==
    /\ pc = "gnp_enum"
    /\ keep_scrolling(scroll_attempt)
    /\ current_posts' = [i \in 1..loaded |-> i]
    /\ idx' = 1
    /\ pc' = "gnp_for"
    /\ UNCHANGED <<loginVars, posts_processed, post, processed_posts,
                   scroll_attempt, last_height, elapsed, genVars, engVars,
                   last, exit, raised, histVars, pageVars>>
    /\ UNCHANGED <<parseVars, unitVars>>
    /\ UNCHANGED getPostsVars
    /\ UNCHANGED orphaned
    /\ UNCHANGED sessionVars

\* A pass of the while loop begins; which elements a pass leaves behind
\* is looked at in OrderSpec only.
GNP_Enumerate ==
    /\ enumerate_posts
    /\ UNCHANGED passed

\* The while loop ends: log, return None (base_scraper.py:283-284); run
\* breaks on the None.
GNP_ReturnNone ==
    /\ pc = "gnp_enum"
    /\ ~keep_scrolling(scroll_attempt)
    /\ no_post_break("stall_limit")
    /\ gnp_ends
    /\ UNCHANGED <<loginVars, posts_processed, processed_posts, genVars,
                   engVars, raised, histVars, pageVars>>
    /\ UNCHANGED <<parseVars, unitVars>>
    /\ UNCHANGED getPostsVars
    /\ UNCHANGED orphaned
    /\ UNCHANGED passed
    /\ UNCHANGED sessionVars

\* Mutant of is_processed: the membership test is lost.
is_processed_never(e) == FALSE

\* if element_id in self.processed_posts: continue (base_scraper.py:238).
is_processed(e) == e \in processed_posts

\* One candidate of the for loop up to the scrollIntoView and its sleep
\* (base_scraper.py:232-249).  A candidate that is not displayed, whose
\* probe raises (stale element), or that is already processed is passed
\* over.
GNP_Examine ==
    /\ pc = "gnp_for"
    /\ idx <= Len(current_posts)
    /\ \E probe \in {"displayed", "hidden", "raises"} :
         IF probe = "displayed" /\ ~is_processed(current_posts[idx])
           THEN /\ pc' = "gnp_settle"
                /\ idx' = idx
           ELSE /\ pc' = pc
                /\ idx' = idx + 1
    /\ UNCHANGED <<loginVars, posts_processed, post, processed_posts,
                   current_posts, scroll_attempt, last_height, elapsed,
                   genVars, engVars, last, exit, raised, histVars, pageVars>>
    /\ UNCHANGED <<parseVars, unitVars>>
    /\ UNCHANGED getPostsVars
    /\ UNCHANGED orphaned
    /\ UNCHANGED passed
    /\ UNCHANGED sessionVars

\* Mutant of mark_processed: the element is not recorded.
mark_processed_never(e) == processed_posts

\* Mutant of mark_processed: the set keeps the last element only.
mark_processed_alone(e) == {e}

\* self.processed_posts.add(element_id) (base_scraper.py:255).
mark_processed(e) == processed_posts \cup {e}

\* Mutant of has_content: the test is turned round.
has_content_inverted(text) == text = ""

\* Mutant of has_content: the test of the content is lost.
has_content_always(text) == TRUE

\* if post_data and post_data.get('content') (base_scraper.py:254).
has_content(text) == text # ""

\* What extract_post_data can give for an element: the text of an element
\* is fixed once the page has shown it.
Extractions(e) ==
    {"raises"} \cup (IF content[e] = "unknown" THEN {"", "text"} ELSE {content[e]})

\* After the sleep of 2: extract_post_data, then either mark the element
\* and return its post, or go on with the next candidate
\* (base_scraper.py:251-260).
extract_candidate ==
    /\ pc = "gnp_settle"
    /\ CanResume(2)
    /\ LET e == current_posts[idx] IN
       \E x \in Extractions(e) :
         /\ content' = IF x = "raises" THEN content ELSE [content EXCEPT ![e] = x]
         /\ IF x # "raises" /\ has_content(x)
              THEN /\ processed_posts' = mark_processed(e)
                   /\ post' = e
                   /\ yielded' = yielded \cup {e}
                   /\ pc' = "pulled"
                   /\ gnp_ends
              ELSE /\ idx' = idx + 1
                   /\ elapsed' = elapsed + 2
                   /\ pc' = "gnp_for"
                   /\ UNCHANGED <<processed_posts, post, yielded, current_posts,
                                  scroll_attempt, last_height>>
    /\ UNCHANGED <<loginVars, posts_processed, genVars, engVars, last, exit,
                   raised, gen_skipped, loaded, height, budget>>
    /\ UNCHANGED <<parseVars, unitVars>>
    /\ UNCHANGED getPostsVars
    /\ UNCHANGED orphaned
    /\ UNCHANGED sessionVars

GNP_Extract ==
    /\ extract_candidate
    /\ UNCHANGED passed

\* No candidate was returned: read the height and scroll down by 800
\* (base_scraper.py:262-273).
GNP_Scroll ==
    /\ pc = "gnp_for"
    /\ idx > Len(current_posts)
    /\ last_height' = height
    /\ pc' = "gnp_scroll_wait"
    /\ UNCHANGED <<loginVars, posts_processed, post, processed_posts,
                   current_posts, idx, scroll_attempt, elapsed, genVars,
                   engVars, last, exit, raised, histVars, pageVars>>
    /\ UNCHANGED <<parseVars, unitVars>>
    /\ UNCHANGED getPostsVars
    /\ UNCHANGED orphaned
    /\ UNCHANGED passed
    /\ UNCHANGED sessionVars

\* if new_height == last_height: scroll_attempt += 1, else: scroll_attempt = 0
\* (base_scraper.py:276-279).
count_stall(new_height) ==
    IF new_height = last_height THEN scroll_attempt + 1 ELSE 0

\* A document height other than h.  The code reads the height in one place
\* only, new_height == last_height (base_scraper.py:262, 275-276), so which
\* other height the page takes makes no difference to it.
other_height(h) == (h % MaxHeight) + 1

\* After the sleep of 2 that follows the scroll: the page has answered the
\* scroll (more elements, another height, or nothing), the new height is
\* read and compared (base_scraper.py:275-281).
GNP_AfterScroll ==
    /\ pc = "gnp_scroll_wait"
    /\ CanResume(2)
    /\ \E n \in loaded..NumElements, h \in {height, other_height(height)} :
         LET changed == (n # loaded \/ h # height) IN
         /\ changed => budget > 0
         /\ loaded' = n
         /\ height' = h
         /\ budget' = IF changed THEN budget - 1 ELSE budget
         /\ scroll_attempt' = count_stall(h)
    /\ elapsed' = elapsed + 2
    /\ pc' = "gnp_pause"
    /\ UNCHANGED <<loginVars, posts_processed, post, processed_posts,
                   current_posts, idx, last_height, genVars, engVars, last,
                   exit, raised, histVars, content>>
    /\ UNCHANGED <<parseVars, unitVars>>
    /\ UNCHANGED getPostsVars
    /\ UNCHANGED orphaned
    /\ UNCHANGED passed
    /\ UNCHANGED sessionVars

\* After the sleep of 1 that ends a pass of the while loop
\* (base_scraper.py:281).
GNP_NextPass ==
    /\ pc = "gnp_pause"
    /\ CanResume(1)
    /\ elapsed' = elapsed + 1
    /\ pc' = "gnp_enum"
    /\ UNCHANGED <<loginVars, posts_processed, post, gnpVars, genVars, engVars,
                   last, exit, raised, histVars, pageVars>>
    /\ UNCHANGED <<parseVars, unitVars>>
    /\ UNCHANGED getPostsVars
    /\ UNCHANGED orphaned
    /\ UNCHANGED passed
    /\ UNCHANGED sessionVars

\* A driver call outside the per-candidate try raises (find_elements, the
\* height and scroll scripts): except Exception: log, return None
\* (base_scraper.py:286-288); run breaks on the None.
GNP_Exception ==
    /\ \/ pc = "gnp_enum" /\ keep_scrolling(scroll_attempt)
       \/ pc = "gnp_for" /\ idx > Len(current_posts)
       \/ pc = "gnp_scroll_wait" /\ CanResume(2)
    /\ no_post_break("exception")
    /\ gnp_ends
    /\ UNCHANGED <<loginVars, posts_processed, processed_posts, genVars,
                   engVars, raised, histVars, pageVars>>
    /\ UNCHANGED <<parseVars, unitVars>>
    /\ UNCHANGED getPostsVars
    /\ UNCHANGED orphaned
    /\ UNCHANGED passed
    /\ UNCHANGED sessionVars

\* Mutant of left_by_cancelled_pull: the candidate is marked before the
\* sleep that precedes its extraction.
left_by_cancelled_pull_marked ==
    IF pc = "gnp_settle" THEN processed_posts \cup {current_posts[idx]}
                         ELSE processed_posts

\* processed_posts after a call that was cancelled in one of its sleeps:
\* processed_posts.add and the return that follows it stand after the last
\* await of the candidate (base_scraper.py:249-256; extract_post_data has
\* no sleep, post_extractor.py:17-47), so the cancelled call has added
\* nothing.
left_by_cancelled_pull == processed_posts

\* The 30 seconds of wait_for run out while get_next_post is suspended in
\* one of its sleeps (the driver calls block for as long as the page makes
\* them): the coroutine is cancelled there, wait_for raises TimeoutError
\* (base_agent.py:79-82).
PullTimeout ==
    /\ pc \in {"gnp_settle", "gnp_scroll_wait", "gnp_pause"}
    /\ timeout_handler("pull")
    /\ gnp_ends
    /\ processed_posts' = left_by_cancelled_pull
    /\ UNCHANGED <<loginVars, posts_processed, post, genVars,
                   engVars, exit, raised, histVars, pageVars>>
    /\ UNCHANGED <<parseVars, unitVars>>
    /\ UNCHANGED getPostsVars
    /\ UNCHANGED orphaned
    /\ UNCHANGED passed
    /\ UNCHANGED sessionVars

\* ------------------------------------------------------------ generation
\* The prompt is formatted (prompts.format_prompt, then str.format again in
\* generate_response), which raises on text it cannot format; otherwise
\* _generate_safely starts its first attempt (base_agent.py:89-101,
\* gemini_engine.py:19-32, 48-56).
StartGeneration ==
    /\ pc = "pulled"
    /\ \E formatted \in BOOLEAN :
         IF formatted
           THEN /\ pc' = "gen_call"
                /\ UNCHANGED <<last, gen_skipped>>
           ELSE /\ error_handler("generation", "AIGenerationError")
                /\ gen_skipped' = post
    /\ UNCHANGED <<loginVars, posts_processed, post, gnpVars, elapsed, genVars,
                   engVars, exit, raised, yielded, pageVars>>
    /\ UNCHANGED <<parseVars, unitVars>>
    /\ UNCHANGED getPostsVars
    /\ UNCHANGED orphaned
    /\ UNCHANGED passed
    /\ UNCHANGED sessionVars

\* Mutant of is_last_attempt: the last attempt is not recognised.
is_last_attempt_never(a) == FALSE

\* if attempt == max_retries - 1: raise (gemini_engine.py:60-61).
is_last_attempt(a) == a = max_retries - 1

\* The executor call of one attempt completes (gemini_engine.py:53-63, and
\* generate_response lines 35-46): a text is parsed and returned; an error
\* is retried after a sleep of 1, and raised on the last attempt, which
\* generate_response turns into AIGenerationError.
GenAttempt ==
    /\ pc = "gen_call"
    /\ \E result \in {"text", "error"} :
         IF result = "text"
           THEN /\ ai_response' = "response"
                /\ pc' = "generated"
                /\ attempt' = 0
                /\ elapsed' = 0
                /\ UNCHANGED <<last, gen_skipped>>
           ELSE IF is_last_attempt(attempt)
                  THEN /\ error_handler("generation", "AIGenerationError")
                       /\ gen_skipped' = post
                       /\ attempt' = attempt
                       /\ elapsed' = 0
                       /\ ai_response' = ai_response
                  ELSE /\ pc' = "gen_backoff"
                       /\ UNCHANGED <<ai_response, last, gen_skipped, attempt, elapsed>>
    /\ UNCHANGED <<loginVars, posts_processed, post, gnpVars, engVars, exit,
                   raised, yielded, pageVars>>
    /\ UNCHANGED <<parseVars, unitVars>>
    /\ UNCHANGED getPostsVars
    /\ UNCHANGED orphaned
    /\ UNCHANGED passed
    /\ UNCHANGED sessionVars

\* await asyncio.sleep(1) between attempts (gemini_engine.py:63).
GenBackoff ==
    /\ pc = "gen_backoff"
    /\ CanResume(1)
    /\ elapsed' = elapsed + 1
    /\ attempt' = attempt + 1
    /\ pc' = "gen_call"
    /\ UNCHANGED <<loginVars, posts_processed, post, gnpVars, ai_response,
                   engVars, last, exit, raised, histVars, pageVars>>
    /\ UNCHANGED <<parseVars, unitVars>>
    /\ UNCHANGED getPostsVars
    /\ UNCHANGED orphaned
    /\ UNCHANGED passed
    /\ UNCHANGED sessionVars

\* The wait_for around generate_response times out (base_agent.py:91-101):
\* the coroutine is cancelled at its await, on the executor future
\* (gemini_engine.py:53) or in the sleep between attempts (line 63).
GenCancelled ==
    /\ pc \in {"gen_call", "gen_backoff"}
    /\ timeout_handler("generation")
    /\ gen_skipped' = post
    /\ attempt' = 0
    /\ elapsed' = 0
    /\ UNCHANGED <<loginVars, posts_processed, post, gnpVars, ai_response,
                   engVars, exit, raised, yielded, pageVars>>
    /\ UNCHANGED <<parseVars, unitVars>>
    /\ UNCHANGED getPostsVars
    /\ UNCHANGED sessionVars
    /\ UNCHANGED passed

\* The timeout of the generation as run sees it; the executor thread is
\* looked at in ExecutorSpec only.
GenTimeout ==
    /\ GenCancelled
    /\ UNCHANGED orphaned
    /\ UNCHANGED passed

\* ------------------------------------------------- _parse_response
\* The reaction names in the order in which _parse_response tries them
\* (gemini_engine.py:80-81).
Reactions == <<"LIKE", "CELEBRATE", "SUPPORT", "FUNNY", "LOVE", "INSIGHTFUL">>
ReactionSet == {Reactions[i] : i \in DOMAIN Reactions}

\* A line of the generator's text, by what _parse_response asks of it: the
\* reaction names that occur in line.upper(), its length after strip(),
\* whether it starts with one of '1.', '2.', '-', 'Generate:', 'Consider:',
\* and its length as split('\n') gave it (raw): the loop looks at the
\* stripped line (line 77), the max of line 92 at the line as it was split.
\* A line is at least as long as a name it contains, and as its marker.
\* Blanks around a line count where they take it over the 10 characters
\* that the code asks for.
NameLength == [r \in ReactionSet |-> Len(r)]
LineLengths == {0, 8, 11, 14}
LineNames ==
    {n \in SUBSET ReactionSet : Cardinality(n) <= 1}
      \cup {{"LIKE", "LOVE"}, {"LIKE", "CELEBRATE"}, {"SUPPORT", "LOVE"}}
PaddedLengths == {12}
Lines ==
    {l \in [names : LineNames, len : LineLengths, marker : BOOLEAN,
            raw : LineLengths \cup PaddedLengths] :
        /\ \A r \in l.names : NameLength[r] <= l.len
        /\ l.marker => l.len > 0
        /\ l.raw \in {l.len} \cup PaddedLengths
        /\ l.raw # l.len => l.len <= 10}

\* response.strip().split('\n') gives at least one line; a response that is
\* not a string (Unparsable) makes strip() raise.
Responses(most) ==
    {Unparsable} \cup UNION {[1..n -> Lines] : n \in 1..most}

\* Mutant of default_reaction: no default.
default_reaction_missing == "none"

\* reaction = "LIKE" (gemini_engine.py:69); also the reaction returned when
\* parsing raises (line 99).
default_reaction == "LIKE"

\* for r in [...]: if r in line.upper(): reaction = r; break
\* (gemini_engine.py:81-84): the first name of the list that the line holds.
first_reaction(l) ==
    Reactions[CHOOSE i \in DOMAIN Reactions :
                /\ Reactions[i] \in l.names
                /\ \A j \in 1..(i - 1) : Reactions[j] \notin l.names]

\* Mutant of is_comment_line: the length is not asked for.
is_comment_line_any_length(l) == ~l.marker

\* len(line) > 10 and not line.startswith((...)) (gemini_engine.py:87).
is_comment_line(l) == l.len > 10 /\ ~l.marker

\* The for loop over the lines (gemini_engine.py:76-88): a line that holds
\* a reaction name sets the reaction, any other line that qualifies sets
\* the comment; later lines overwrite earlier ones.
RECURSIVE scan_lines(_, _, _)
scan_lines(lines, i, acc) ==
    IF i > Len(lines) THEN acc
    ELSE LET l == lines[i] IN
         scan_lines(lines, i + 1,
            IF l.names # {} THEN [acc EXCEPT !.reaction = first_reaction(l)]
            ELSE IF is_comment_line(l)
                   THEN [acc EXCEPT !.comment = [kind |-> "line", at |-> i]]
                   ELSE acc)

\* max([l for l in lines if len(l) > 10], key=len, default="Great insights!")
\* (gemini_engine.py:91-92): the first of the longest lines over 10, the
\* lines taken as they were split.
longest_line(lines) ==
    LET long == {i \in DOMAIN lines : lines[i].raw > 10} IN
    IF long = {} THEN [kind |-> "default", at |-> 0]
    ELSE [kind |-> "longest",
          at |-> CHOOSE i \in long :
                   /\ \A j \in long : lines[j].raw <= lines[i].raw
                   /\ \A j \in long : j < i => lines[j].raw < lines[i].raw]

\* GeminiEngine._parse_response (gemini_engine.py:65-99).
parse_response(r) ==
    IF r = Unparsable
      THEN [reaction |-> default_reaction, comment |-> [kind |-> "fallback", at |-> 0]]
      ELSE LET acc == scan_lines(r, 1, [reaction |-> default_reaction,
                                        comment |-> [kind |-> "empty", at |-> 0]])
           IN IF acc.comment.kind = "empty"
                THEN [acc EXCEPT !.comment = longest_line(r)]
                ELSE acc

\* len(comment) for what _parse_response returned for the text r
\* (gemini_engine.py:94-95): the stripped line of the loop, the line as it
\* was split, "Great insights!" (92), or the text of line 99.
comment_length(r, c) ==
    CASE c.kind = "line"     -> r[c.at].len
      [] c.kind = "longest"  -> r[c.at].raw
      [] c.kind = "default"  -> Len("Great insights!")
      [] c.kind = "fallback" -> Len("Interesting perspective! Thanks for sharing.")
      [] OTHER               -> 0

\* A call of _parse_response on its own, for any text of the generator.
ParseInit ==
    /\ RunInit
    /\ response \in Responses(MaxLines)
    /\ parsed = NoParse
    /\ ScraperIdle
    /\ UnitIdle

Parse ==
    /\ parsed = NoParse
    /\ parsed' = parse_response(response)
    /\ UNCHANGED <<pc, loginVars, posts_processed, post, gnpVars, elapsed,
                   genVars, engVars, last, exit, raised, histVars, pageVars,
                   response>>
    /\ UNCHANGED <<sessionVars, getPostsVars, orphaned, passed, unitVars>>

ParseNext ==
    \/ Parse

ParseSpec == ParseInit /\ [][ParseNext]_vars

\* ------------------------------------------------------- _add_reaction
\* reaction_map (engagement_engine.py:93-100).
reaction_map == {"LIKE", "CELEBRATE", "SUPPORT", "LOVE", "INSIGHTFUL", "FUNNY"}

\* The reaction types _add_reaction may be called with: the six of the map
\* and one that the map does not hold.
ReactionTypes == reaction_map \cup {"CURIOUS"}

\* What a click on a button that was found does: element.click() works;
\* it raises and the scripted click of the handler works; both raise
\* (engagement_engine.py:85-90, 124-127).
Clicks == {"clicks", "scripted", "raises"}

\* A call of _add_reaction: the type asked for, and the page: whether one
\* of the three selectors finds the main reaction button (65-79), what the
\* click on it does, whether the wait for the button of the type finds it
\* (104-110), whether the wait for the Like button finds it (113-119), and
\* what the click on the button does.
ReactionCalls == [type : ReactionTypes, main : BOOLEAN, main_click : Clicks,
                  requested : BOOLEAN, like : BOOLEAN, click : Clicks]

\* Mutant of reaction_button: no second wait for the Like button.
reaction_button_no_fallback(c) ==
    IF c.type \in reaction_map /\ c.requested THEN c.type ELSE "none"

\* The button of the reaction menu that is waited for and found
\* (engagement_engine.py:102-121): the button of the type; when that wait
\* raises, or reaction_map[reaction_type] raises KeyError, the Like button.
reaction_button(c) ==
    IF c.type \in reaction_map /\ c.requested THEN c.type
    ELSE IF c.like THEN "LIKE"
    ELSE "none"

\* _add_reaction, lines 63-134: except Exception logs and re-raises.
add_reaction(c) ==
    IF ~c.main
      THEN [clicked |-> "none", raised |-> "no_main_button"]
    ELSE IF c.main_click = "raises"
      THEN [clicked |-> "none", raised |-> "click"]
    ELSE IF reaction_button(c) = "none"
      THEN [clicked |-> "none", raised |-> "no_reaction_button"]
    ELSE IF c.click = "raises"
      THEN [clicked |-> "none", raised |-> "click"]
    ELSE [clicked |-> reaction_button(c), raised |-> "none"]

\* A call of _add_reaction on its own, for any type and any page.
ReactInit ==
    /\ RunInit
    /\ response = Unparsable
    /\ parsed = NoParse
    /\ ScraperIdle
    /\ MainIdle
    /\ reaction_call \in ReactionCalls
    /\ reaction_result = NoReaction

AddReactionCall ==
    /\ reaction_result = NoReaction
    /\ reaction_result' = add_reaction(reaction_call)
    /\ UNCHANGED <<agentVars, parseVars, mainVars, reaction_call>>

ReactNext ==
    \/ AddReactionCall

ReactSpec == ReactInit /\ [][ReactNext]_vars

\* ------------------------------------------------- AgentFactory and main
\* AgentFactory._agents (main.py:16-20) and get_available_agents (25-27):
\* the keys in the order of the dict.
agents == <<"linkedin">>
registered == {agents[i] : i \in DOMAIN agents}

\* The platforms Config sets up (config.py:52-56), and platform names that
\* create_agent may be called with.
ConfigPlatforms == {"linkedin", "facebook", "instagram"}
PlatformNames == ConfigPlatforms \cup {"twitter"}

\* A PlatformConfig as main reads it: whether _setup_*_config returned one
\* (None when it raised, config.py:93-95) and whether the username and the
\* password are set in the environment.
NoPlatformConfig == [present |-> FALSE, username |-> FALSE, password |-> FALSE]
PlatformConfigs == {NoPlatformConfig}
                     \cup [present : {TRUE}, username : BOOLEAN, password : BOOLEAN]
Configs == [api_key : BOOLEAN, platforms : [ConfigPlatforms -> PlatformConfigs]]

\* Mutant of has_credentials: one of the two is enough.
has_credentials_either(c, p) ==
    /\ c.platforms[p].present
    /\ (c.platforms[p].username \/ c.platforms[p].password)

\* main.py:75-82: platform_config is not None, and both credentials are
\* set.
has_credentials(c, p) ==
    /\ c.platforms[p].present
    /\ c.platforms[p].username
    /\ c.platforms[p].password

\* active_agents after the loop of main.py:73-86.
RECURSIVE filter_agents(_, _)
filter_agents(c, i) ==
    IF i > Len(agents) THEN <<>>
    ELSE IF has_credentials(c, agents[i])
      THEN <<agents[i]>> \o filter_agents(c, i + 1)
      ELSE filter_agents(c, i + 1)

\* Mutant of create_agent: the registry is not looked at.
create_agent_unchecked(p, constructs) ==
    IF constructs THEN [agent |-> p, raised |-> "none"]
                  ELSE [agent |-> "none", raised |-> "Exception"]

\* AgentFactory.create_agent (main.py:29-46): PlatformNotSupportedError for
\* a platform that is not registered; otherwise the constructor is called,
\* and what it raises is logged and re-raised.
create_agent(p, constructs) ==
    IF p \notin registered
      THEN [agent |-> "none", raised |-> "PlatformNotSupportedError"]
    ELSE IF constructs
      THEN [agent |-> p, raised |-> "none"]
      ELSE [agent |-> "none", raised |-> "Exception"]

\* main is entered, or create_agent is called by another caller, with any
\* configuration.
MainInit ==
    /\ RunInit
    /\ response = Unparsable
    /\ parsed = NoParse
    /\ ScraperIdle
    /\ ReactIdle
    /\ config \in Configs
    /\ main_pc \in {"start", "factory"}
    /\ active_agents = <<>>
    /\ selected_platform = "none"
    /\ platform = "none"
    /\ agent = "none"
    /\ main_raised = "none"

\* An exception ends main: InvalidConfigurationError and KeyboardInterrupt
\* are printed (main.py:133-138), any other is re-raised (139-142).
main_ends(e) ==
    /\ main_raised' = e
    /\ main_pc' = "done"

\* main.py:51-90: Config(), the API key, the platforms with credentials.
MainConfigure ==
    /\ main_pc = "start"
    /\ \E loads \in BOOLEAN :
         IF ~loads \/ ~config.api_key \/ filter_agents(config, 1) = <<>>
           THEN /\ main_ends("InvalidConfigurationError")
                /\ UNCHANGED active_agents
           ELSE /\ active_agents' = filter_agents(config, 1)
                /\ main_pc' = "select"
                /\ UNCHANGED main_raised
    /\ UNCHANGED <<agentVars, parseVars, reactVars, config, selected_platform,
                   platform, agent>>

\* main.py:93-111: one round of the selection loop.  A number in range
\* selects; a number out of range, a text that is no number and any other
\* exception ask again; KeyboardInterrupt is re-raised.
MainSelect ==
    /\ main_pc = "select"
    /\ \/ \E choice \in -1..Len(active_agents) :
            /\ IF 0 <= choice /\ choice < Len(active_agents)
                 THEN /\ selected_platform' = active_agents[choice + 1]
                      /\ main_pc' = "create"
                 ELSE UNCHANGED <<selected_platform, main_pc>>
            /\ UNCHANGED main_raised
       \/ /\ main_ends("KeyboardInterrupt")
          /\ UNCHANGED selected_platform
    /\ UNCHANGED <<agentVars, parseVars, reactVars, config, active_agents,
                   platform, agent>>

\* main.py:114-121: create_agent for the selected platform.
MainCreate ==
    /\ main_pc = "create"
    /\ platform' = selected_platform
    /\ \E constructs \in BOOLEAN :
         LET made == create_agent(selected_platform, constructs)
         IN /\ agent' = made.agent
            /\ IF made.raised = "none"
                 THEN main_pc' = "run" /\ UNCHANGED main_raised
                 ELSE main_ends(made.raised)
    /\ UNCHANGED <<agentVars, parseVars, reactVars, config, active_agents,
                   selected_platform>>

\* main.py:125-131: await agent.run(); what run raises is re-raised.
MainRun ==
    /\ main_pc = "run"
    /\ \E e \in {"none", "ScrapingError", "NetworkError", "RateLimitError"} :
         main_ends(e)
    /\ UNCHANGED <<agentVars, parseVars, reactVars, config, active_agents,
                   selected_platform, platform, agent>>

\* AgentFactory.create_agent called for any platform name.
CreateAgentCall ==
    /\ main_pc = "factory"
    /\ \E p \in PlatformNames, constructs \in BOOLEAN :
         LET made == create_agent(p, constructs)
         IN /\ platform' = p
            /\ agent' = made.agent
            /\ main_raised' = made.raised
            /\ main_pc' = "factory_done"
    /\ UNCHANGED <<agentVars, parseVars, reactVars, config, active_agents,
                   selected_platform>>

MainNext ==
    \/ MainConfigure
    \/ MainSelect
    \/ MainCreate
    \/ MainRun
    \/ CreateAgentCall

MainSpec == MainInit /\ [][MainNext]_vars

\* ------------------------------------------------------------ engagement
\* What the page does to the engagement of one item: the sub-step whose
\* driver call fails (none: every element is found and every click works)
\* and whether the failure is an ordinary one or a rate-limit signal of the
\* platform.
ReactionFaults == {"react_main", "react_menu"}
CommentFaults == {"comment_button", "comment_field", "comment_submit"}
Faults == {NoFault} \cup [at : ReactionFaults \cup CommentFaults,
                          kind : {"ActionFailure", "RateLimitSignal"}]

\* Mutant of engage_raises: the failed item is counted.
engage_raises_counted ==
    /\ error_handler("engagement", fault.kind)
    /\ elapsed' = 0
    /\ posts_processed' = posts_processed + 1

\* except Exception as e: raise EngagementError(...) (engagement_engine.py:45-47),
\* caught by except Exception in run.
engage_raises ==
    /\ error_handler("engagement", fault.kind)
    /\ elapsed' = 0
    /\ UNCHANGED posts_processed

\* engage returned: posts_processed += 1, then the pause (base_agent.py:117-118).
engage_returns ==
    /\ posts_processed' = posts_processed + 1
    /\ last' = [outcome |-> "engaged", stage |-> "engagement", cause |-> "none", pause |-> 0]
    /\ elapsed' = 0
    /\ pc' = "pause"

\* engage goes on to its next sleep, having slept d.
engage_goes_on(next, d) ==
    /\ pc' = next
    /\ elapsed' = Slept(d)
    /\ UNCHANGED <<last, posts_processed>>

\* Mutant of after_reaction: the comment follows the reaction at once.
after_reaction_no_pace == "comment_scroll_wait"

\* _add_reaction has returned: await asyncio.sleep(2) comes next, and
\* _add_comment after it (engagement_engine.py:37-41).
after_reaction == "eng_pace_wait"

\* engage is called with the post and the response; it scrolls the post
\* into view and sleeps 2 (base_agent.py:103-115, engagement_engine.py:17-34).
StartEngage ==
    /\ pc = "generated"
    /\ \E f \in Faults : fault' = f
    /\ pc' = "eng_scroll_wait"
    /\ UNCHANGED <<loginVars, posts_processed, post, gnpVars, elapsed, genVars,
                   reacted, commented, swallowed, last, exit, raised, histVars,
                   pageVars>>
    /\ UNCHANGED <<parseVars, unitVars>>
    /\ UNCHANGED getPostsVars
    /\ UNCHANGED orphaned
    /\ UNCHANGED passed
    /\ UNCHANGED sessionVars

\* engage between its sleeps: after the first sleep it enters
\* _add_reaction, whose first lines scroll and sleep 2; after the sleep of
\* 2 that follows the reaction it enters _add_comment, likewise
\* (engagement_engine.py:34-41, 54-61, 141-148).
EngageStep ==
    /\ pc \in {"eng_scroll_wait", "eng_pace_wait"}
    /\ CanResume(2)
    /\ engage_goes_on(IF pc = "eng_scroll_wait" THEN "react_scroll_wait"
                                                ELSE "comment_scroll_wait", 2)
    /\ UNCHANGED <<loginVars, post, gnpVars, genVars, engVars, exit, raised,
                   histVars, pageVars>>
    /\ UNCHANGED <<parseVars, unitVars>>
    /\ UNCHANGED getPostsVars
    /\ UNCHANGED orphaned
    /\ UNCHANGED passed
    /\ UNCHANGED sessionVars

\* _add_reaction after its sleeps (engagement_engine.py:63-134): find and
\* click the main reaction button; find the button of the reaction (or of
\* Like) in the menu and click it; return to engage.  A button that cannot
\* be found raises, and the exception leaves engage as EngagementError.
ReactionSleep == [react_scroll_wait |-> 2, react_menu_wait |-> 1,
                  react_menu_retry |-> 1, react_done_wait |-> 1]
AddReaction ==
    /\ pc \in DOMAIN ReactionSleep
    /\ CanResume(ReactionSleep[pc])
    /\ CASE pc = "react_scroll_wait" ->
              /\ IF fault.at = "react_main"
                   THEN engage_raises
                   ELSE engage_goes_on("react_menu_wait", 2)
              /\ UNCHANGED reacted
         [] pc \in {"react_menu_wait", "react_menu_retry"} ->
              IF fault.at = "react_menu"
                THEN engage_raises /\ UNCHANGED reacted
                ELSE reacted' = TRUE /\ engage_goes_on("react_done_wait", 1)
         [] pc = "react_done_wait" ->
              engage_goes_on(after_reaction, 1) /\ UNCHANGED reacted
    /\ UNCHANGED <<loginVars, post, gnpVars, genVars, fault, commented,
                   swallowed, exit, raised, histVars, pageVars>>
    /\ UNCHANGED <<parseVars, unitVars>>
    /\ UNCHANGED getPostsVars
    /\ UNCHANGED orphaned
    /\ UNCHANGED passed
    /\ UNCHANGED sessionVars

\* _add_comment after its sleeps (engagement_engine.py:150-235): open the
\* comment box, type the text, find and click the submit button, wait 3,
\* look for the posted comment (and wait 2 more when it is found), return.
CommentSleep == [comment_scroll_wait |-> 2, comment_open_wait |-> 2,
                 comment_typed_wait |-> 2, comment_submit_wait |-> 1,
                 comment_posted_wait |-> 3, comment_verify_wait |-> 2]
AddComment ==
    /\ pc \in DOMAIN CommentSleep
    /\ CanResume(CommentSleep[pc])
    /\ CASE pc = "comment_scroll_wait" ->
              /\ IF fault.at = "comment_button"
                   THEN engage_raises
                   ELSE engage_goes_on("comment_open_wait", 2)
              /\ UNCHANGED commented
         [] pc = "comment_open_wait" ->
              /\ IF fault.at = "comment_field"
                   THEN engage_raises
                   ELSE engage_goes_on("comment_typed_wait", 2)
              /\ UNCHANGED commented
         [] pc = "comment_typed_wait" ->
              /\ IF fault.at = "comment_submit"
                   THEN engage_raises
                   ELSE engage_goes_on("comment_submit_wait", 2)
              /\ UNCHANGED commented
         [] pc = "comment_submit_wait" ->
              /\ commented' = TRUE
              /\ engage_goes_on("comment_posted_wait", 1)
         [] pc = "comment_posted_wait" ->
              /\ \E verified \in BOOLEAN :
                   IF verified
                     THEN engage_goes_on("comment_verify_wait", 3)
                     ELSE engage_returns
              /\ UNCHANGED commented
         [] pc = "comment_verify_wait" ->
              engage_returns /\ UNCHANGED commented
    /\ UNCHANGED <<loginVars, post, gnpVars, genVars, fault, reacted,
                   swallowed, exit, raised, histVars, pageVars>>
    /\ UNCHANGED <<parseVars, unitVars>>
    /\ UNCHANGED getPostsVars
    /\ UNCHANGED orphaned
    /\ UNCHANGED passed
    /\ UNCHANGED sessionVars

\* The sleeps of engage that stand inside a try with a bare except
\* (engagement_engine.py:85-90 and 219-229).
SwallowPoints == {"react_menu_wait", "comment_verify_wait"}

\* The wait_for around engage times out while engage is suspended in a
\* sleep that no bare except encloses: the coroutine is cancelled there
\* (base_agent.py:107-115, 120-122).
EngageTimeout ==
    /\ pc \in ({"eng_scroll_wait", "eng_pace_wait"} \cup DOMAIN ReactionSleep
                 \cup DOMAIN CommentSleep) \ SwallowPoints
    /\ ~swallowed
    /\ timeout_handler("engagement")
    /\ elapsed' = 0
    /\ UNCHANGED <<loginVars, posts_processed, post, gnpVars, genVars,
                   engVars, exit, raised, histVars, pageVars>>
    /\ UNCHANGED <<parseVars, unitVars>>
    /\ UNCHANGED getPostsVars
    /\ UNCHANGED orphaned
    /\ UNCHANGED passed
    /\ UNCHANGED sessionVars

\* The timeout cancels engage inside a sleep that a bare except encloses:
\* the except clause catches the CancelledError and the coroutine goes on.
\* At lines 85-90 it clicks the main button by script and sleeps 1 again;
\* at lines 219-229 it logs a warning and _add_comment returns, so engage
\* returns and wait_for hands its result to run.
EngageCancelSwallowed ==
    /\ pc \in SwallowPoints
    /\ ~swallowed
    /\ swallowed' = TRUE
    /\ IF pc = "react_menu_wait"
         THEN /\ pc' = "react_menu_retry"
              /\ UNCHANGED <<last, posts_processed, elapsed>>
         ELSE engage_returns
    /\ UNCHANGED <<loginVars, post, gnpVars, genVars, fault, reacted,
                   commented, exit, raised, histVars, pageVars>>
    /\ UNCHANGED <<parseVars, unitVars>>
    /\ UNCHANGED getPostsVars
    /\ UNCHANGED orphaned
    /\ UNCHANGED passed
    /\ UNCHANGED sessionVars

\* await asyncio.sleep(2) between posts (base_agent.py:118).
InterItemPause ==
    /\ pc = "pause"
    /\ last' = [last EXCEPT !.pause = 2]
    /\ pc' = "loop"
    /\ UNCHANGED <<loginVars, posts_processed, post, gnpVars, elapsed, genVars,
                   engVars, exit, raised, histVars, pageVars>>
    /\ UNCHANGED <<parseVars, unitVars>>
    /\ UNCHANGED getPostsVars
    /\ UNCHANGED orphaned
    /\ UNCHANGED passed
    /\ UNCHANGED sessionVars

\* --------------------------------------------------------------- teardown
\* The methods BaseScraper defines (base_scraper.py:25-329): there is no
\* cleanup among them.
scraper_methods == {"initialize_driver", "login", "wait_for_element",
                    "check_for_rate_limit", "check_for_login_errors",
                    "get_posts", "_is_session_valid", "get_next_post",
                    "_get_post_content", "_get_reaction_button"}

\* finally: await self.scraper.cleanup() inside try / except Exception
\* (base_agent.py:132-138).  Calling a method the scraper does not have
\* raises AttributeError, which the except clause logs.
Cleanup ==
    /\ pc = "finally"
    /\ driver' = IF "cleanup" \in scraper_methods /\ driver = "open"
                   THEN "closed" ELSE driver
    /\ pc' = "done"
    /\ UNCHANGED <<login_check, login_exc, login_thrown, posts_processed, post, gnpVars,
                   elapsed, genVars, engVars, last, exit, raised, histVars,
                   pageVars>>
    /\ UNCHANGED <<parseVars, unitVars>>
    /\ UNCHANGED getPostsVars
    /\ UNCHANGED orphaned
    /\ UNCHANGED passed
    /\ UNCHANGED sessionVars

Next ==
    \/ Login
    \/ Settle
    \/ LoopHead
    \/ GNP_Enumerate
    \/ GNP_ReturnNone
    \/ GNP_Examine
    \/ GNP_Extract
    \/ GNP_Scroll
    \/ GNP_AfterScroll
    \/ GNP_NextPass
    \/ GNP_Exception
    \/ PullTimeout
    \/ StartGeneration
    \/ GenAttempt
    \/ GenBackoff
    \/ GenTimeout
    \/ StartEngage
    \/ EngageStep
    \/ AddReaction
    \/ AddComment
    \/ EngageTimeout
    \/ EngageCancelSwallowed
    \/ InterItemPause
    \/ Cleanup

Spec == Init /\ [][Next]_vars

\* The event loop keeps running the coroutine that is ready: some step is
\* taken whenever one is possible.  Nothing is assumed of the page.
FairSpec == Spec /\ WF_vars(Next)

\* The run with a driver and a generator that answer at once: only the
\* sleeps take time, so wait_for times out only when the sleeps of the
\* awaited call add up to more than its 30 seconds.  The sleeps of engage
\* and of _generate_safely stay below that, those of get_next_post need not.
PullSleep == [gnp_settle |-> 2, gnp_scroll_wait |-> 2, gnp_pause |-> 1]
PullTimeoutDue ==
    /\ pc \in DOMAIN PullSleep
    /\ ~CanResume(PullSleep[pc])
    /\ PullTimeout

NextPunctual ==
    \/ Login
    \/ Settle
    \/ LoopHead
    \/ GNP_Enumerate
    \/ GNP_ReturnNone
    \/ GNP_Examine
    \/ GNP_Extract
    \/ GNP_Scroll
    \/ GNP_AfterScroll
    \/ GNP_NextPass
    \/ GNP_Exception
    \/ PullTimeoutDue
    \/ StartGeneration
    \/ GenAttempt
    \/ GenBackoff
    \/ StartEngage
    \/ EngageStep
    \/ AddReaction
    \/ AddComment
    \/ InterItemPause
    \/ Cleanup

PunctualSpec == Init /\ [][NextPunctual]_vars /\ WF_vars(NextPunctual)

\* ------------------------------------------------------ external stop
\* The stage of run in which each suspension point lies; "boundary" is run
\* itself between two items (the sleeps of base_agent.py:69 and 118).
StageOf(p) ==
    IF p \in {"settle", "pause"} THEN "boundary"
    ELSE IF p \in {"gnp_settle", "gnp_scroll_wait", "gnp_pause"} THEN "pull"
    ELSE IF p \in {"gen_call", "gen_backoff"} THEN "generation"
    ELSE "engagement"

\* The places where run or the coroutine it awaits is suspended in an await
\* that no bare except encloses.
CancelPoints ==
    {"settle", "pause", "gnp_settle", "gnp_scroll_wait", "gnp_pause",
     "gen_call", "gen_backoff", "eng_scroll_wait", "eng_pace_wait"}
      \cup ((DOMAIN ReactionSleep \cup DOMAIN CommentSleep) \ SwallowPoints)

\* The task that runs BaseAgent.run is cancelled from outside (task.cancel(),
\* or Ctrl-C under asyncio.run): CancelledError is raised at the await where
\* the task is suspended.  It is a BaseException, so neither except
\* asyncio.TimeoutError / except Exception of the loop (base_agent.py:120-125)
\* nor the outer except Exception (129-131) catches it; the finally block
\* runs and the error leaves run.  The locals of the abandoned stage are gone.
Cancel ==
    /\ pc \in CancelPoints
    /\ ~swallowed
    /\ raised' = "CancelledError"
    /\ last' = [outcome |-> "cancelled", stage |-> StageOf(pc),
                cause |-> "CancelledError", pause |-> 0]
    /\ pc' = "finally"
    /\ gnp_ends
    /\ attempt' = 0
    /\ UNCHANGED <<loginVars, posts_processed, post, processed_posts,
                   ai_response, engVars, exit, histVars, pageVars>>
    /\ UNCHANGED <<parseVars, unitVars>>
    /\ UNCHANGED getPostsVars
    /\ UNCHANGED orphaned
    /\ UNCHANGED passed
    /\ UNCHANGED sessionVars

NextCancellable ==
    \/ Next
    \/ Cancel

\* The run with a stop signal that may arrive at any time.
CancelSpec == Init /\ [][NextCancellable]_vars

\* ------------------------------------------------------ executor thread
\* The timeout of the generation with the executor thread in view.
\* run_in_executor hands lambda: self.model.generate_content(prompt).text to
\* a thread of the default pool (gemini_engine.py:53-56).  Cancelling the
\* coroutine cancels its await, not the thread: a call that is running goes
\* on until the provider answers.
GenTimeoutOrphans ==
    /\ GenCancelled
    /\ orphaned' = (orphaned \/ pc = "gen_call")

\* The provider answers a call nobody waits for any more; the result is
\* dropped.
ModelCallEnds ==
    /\ orphaned
    /\ orphaned' = FALSE
    /\ UNCHANGED <<pc, loginVars, posts_processed, post, gnpVars, elapsed,
                   genVars, engVars, last, exit, raised, histVars, pageVars,
                   parseVars, unitVars, sessionVars, getPostsVars, passed>>

NextExecutor ==
    \/ Login
    \/ Settle
    \/ LoopHead
    \/ GNP_Enumerate
    \/ GNP_ReturnNone
    \/ GNP_Examine
    \/ GNP_Extract
    \/ GNP_Scroll
    \/ GNP_AfterScroll
    \/ GNP_NextPass
    \/ GNP_Exception
    \/ PullTimeout
    \/ StartGeneration
    \/ GenAttempt
    \/ GenBackoff
    \/ GenTimeoutOrphans
    \/ StartEngage
    \/ EngageStep
    \/ AddReaction
    \/ AddComment
    \/ EngageTimeout
    \/ EngageCancelSwallowed
    \/ InterItemPause
    \/ Cleanup
    \/ ModelCallEnds

\* The run together with the thread that executes the model calls.
ExecutorSpec == Init /\ [][NextExecutor]_vars

\* ------------------------------------------------------- order of yields
\* The passes of get_next_post with what they leave behind in view.  An
\* element is "pending" when the for loop of the current pass found it
\* displayed and unprocessed, scrolled to it, and went on without returning
\* it (extract_post_data raised, or gave no content); it is "overtaken"
\* once the same pass has returned an element after it.
clear_pending == [e \in Elements |-> IF passed[e] = "pending" THEN "no" ELSE passed[e]]
overtake_pending == [e \in Elements |-> IF passed[e] = "pending" THEN "overtaken" ELSE passed[e]]

GNP_EnumerateOrdered ==
    /\ enumerate_posts
    /\ passed' = clear_pending

GNP_ExtractOrdered ==
    /\ extract_candidate
    /\ passed' = IF pc' = "pulled"
                   THEN overtake_pending
                   ELSE [passed EXCEPT ![current_posts[idx]] =
                            IF @ = "overtaken" THEN @ ELSE "pending"]

NextOrdered ==
    \/ Login
    \/ Settle
    \/ LoopHead
    \/ GNP_EnumerateOrdered
    \/ GNP_ReturnNone
    \/ GNP_Examine
    \/ GNP_ExtractOrdered
    \/ GNP_Scroll
    \/ GNP_AfterScroll
    \/ GNP_NextPass
    \/ GNP_Exception
    \/ PullTimeout
    \/ StartGeneration
    \/ GenAttempt
    \/ GenBackoff
    \/ GenTimeout
    \/ StartEngage
    \/ EngageStep
    \/ AddReaction
    \/ AddComment
    \/ EngageTimeout
    \/ EngageCancelSwallowed
    \/ InterItemPause
    \/ Cleanup

\* The run with the order of the elements get_next_post returns in view.
OrderSpec == Init /\ [][NextOrdered]_vars

\* ------------------------------------------------------------ get_posts
\* What a call of get_posts leaves alone: the locals of run and of the
\* coroutines run awaits.
notGetPosts == <<posts_processed, post, processed_posts, scroll_attempt,
                 last_height, elapsed, genVars, engVars, last, exit, histVars,
                 height, parseVars, unitVars, orphaned, passed>>

\* The sleeps of get_posts and of the calls it awaits (base_scraper.py:134,
\* 169, 183, 196; scroll_manager.py:82).
GetPostsSleep == [gp_settle |-> 10, gp_view_wait |-> 1, gp_post_wait |-> 2,
                  gp_scroll_wait |-> 1, gp_load_wait |-> 2]

\* A scraper on which get_posts(count) is called: it has a driver whose
\* session is alive, a driver whose session has ended, or no driver yet.
GetPostsInit ==
    /\ pc = "gp_start"
    /\ \E s \in {<<"open", "valid">>, <<"open", "invalid">>, <<"none", "invalid">>} :
         driver = s[1] /\ session = s[2]
    /\ count \in 0..MaxCount
    /\ login_check = "none"
    /\ login_exc = "none"
    /\ login_thrown = NotThrown
    /\ posts_processed = 0
    /\ post = None
    /\ processed_posts = {}
    /\ current_posts = <<>>
    /\ idx = 1
    /\ scroll_attempt = 0
    /\ last_height = 0
    /\ elapsed = 0
    /\ attempt = 0
    /\ ai_response = "none"
    /\ fault = NoFault
    /\ reacted = FALSE
    /\ commented = FALSE
    /\ swallowed = FALSE
    /\ last = NoResult
    /\ exit = "none"
    /\ raised = "none"
    /\ yielded = {}
    /\ gen_skipped = None
    /\ content = [e \in Elements |-> "unknown"]
    /\ loaded \in 0..NumElements
    /\ height = 1
    /\ budget = FeedBudget
    /\ response = Unparsable
    /\ parsed = NoParse
    /\ UnitIdle
    /\ probes = 0
    /\ logins = 0
    /\ waited = 0
    /\ posts = <<>>
    /\ processed_elements = {}
    /\ orphaned = FALSE
    /\ passed = NotPassed

\* except Exception as e: log, raise ScrapingError (base_scraper.py:201-203):
\* whatever is raised inside get_posts reaches the caller as ScrapingError.
get_posts_raises ==
    /\ raised' = "ScrapingError"
    /\ pc' = "gp_done"

\* Mutant of login_failed: the recovery is tried again.
login_retried ==
    /\ raised' = raised
    /\ pc' = "gp_login"

\* await self.login() raises inside the try of get_posts: nothing there
\* catches it before the outer except (base_scraper.py:133, 201-203).
login_failed == get_posts_raises

\* if not self._is_session_valid() (base_scraper.py:131, 205-210).
GP_Probe ==
    /\ pc = "gp_start"
    /\ probes' = probes + 1
    /\ pc' = IF session = "valid" THEN "gp_feed_wait" ELSE "gp_login"
    /\ UNCHANGED <<loginVars, raised, session, logins, waited, getPostsVars,
                   current_posts, idx, pageVars, notGetPosts>>

\* await self.login() (base_scraper.py:133, 55-98).  login creates a
\* driver only when there is none (lines 60-62): on a driver whose session
\* has ended, driver.get raises WebDriverException.  A login that returns
\* has loaded the login page and found its form.
GP_Login ==
    /\ pc = "gp_login"
    /\ logins' = logins + 1
    /\ waited' = 0
    /\ \E f \in LoginFailures, t \in BOOLEAN :
        /\ driver = "open" => f = "webdriver"
        /\ login_check' = IF f \in {"rate_limit", "login_error"} THEN f ELSE "none"
        /\ driver' = IF f = "driver_init" THEN driver ELSE "open"
        /\ IF f = "none"
             THEN /\ login_exc' = "none"
                  /\ login_thrown' = NotThrown
                  /\ session' = "valid"
                  /\ raised' = raised
                  /\ pc' = after_login("get_posts")
             ELSE /\ login_exc' = login_except(login_raises(f, t))
                  /\ login_thrown' = login_raises(f, t)
                  /\ session' = session
                  /\ login_failed
    /\ UNCHANGED <<probes, getPostsVars, current_posts, idx, pageVars,
                   notGetPosts>>

\* await asyncio.sleep(10) after the login (base_scraper.py:134).
GP_Settle ==
    /\ pc = "gp_settle"
    /\ waited' = GetPostsSleep[pc]
    /\ pc' = "gp_feed_wait"
    /\ UNCHANGED <<loginVars, raised, session, probes, logins, getPostsVars,
                   current_posts, idx, pageVars, notGetPosts>>

\* posts = [], processed_elements = set(), then the wait for the first
\* post container (base_scraper.py:137-151): the feed shows an element, or
\* the wait times out (ElementNotFoundError), or the driver call raises on
\* a session that has ended.
GP_FeedWait ==
    /\ pc = "gp_feed_wait"
    /\ posts' = <<>>
    /\ processed_elements' = {}
    /\ IF session = "invalid"
         THEN get_posts_raises /\ UNCHANGED loaded
         ELSE \E n \in loaded..NumElements :
                /\ loaded' = n
                /\ IF n = 0
                     THEN get_posts_raises
                     ELSE pc' = "gp_while" /\ UNCHANGED raised
    /\ UNCHANGED <<loginVars, sessionVars, count, current_posts, idx, content,
                   height, budget, notGetPosts>>

\* while len(posts) < count: find_elements (base_scraper.py:153-155).
GP_Enumerate ==
    /\ pc = "gp_while"
    /\ Len(posts) < count
    /\ IF session = "invalid"
         THEN get_posts_raises /\ UNCHANGED <<current_posts, idx>>
         ELSE /\ current_posts' = [i \in 1..loaded |-> i]
              /\ idx' = 1
              /\ pc' = "gp_for"
              /\ UNCHANGED raised
    /\ UNCHANGED <<loginVars, sessionVars, getPostsVars, pageVars, notGetPosts>>

\* posts[:count] (base_scraper.py:199).
first_posts(p, n) == SubSeq(p, 1, IF Len(p) < n THEN Len(p) ELSE n)

\* The while loop has ended: return posts[:count] (base_scraper.py:198-199).
get_posts_returns ==
    /\ posts' = first_posts(posts, count)
    /\ pc' = "gp_done"

GP_Return ==
    /\ pc = "gp_while"
    /\ ~(Len(posts) < count)
    /\ get_posts_returns
    /\ current_posts' = <<>>
    /\ idx' = 1
    /\ UNCHANGED <<loginVars, raised, sessionVars, count, processed_elements,
                   pageVars, notGetPosts>>

\* Mutant of is_collected: no element is passed over.
is_collected_never(e) == FALSE

\* if element_id in processed_elements: continue (base_scraper.py:163-164).
is_collected(e) == e \in processed_elements

\* One element of the for loop up to the sleep that follows
\* scroll_element_into_view (base_scraper.py:157-169); an element already
\* collected is passed over.
GP_Examine ==
    /\ pc = "gp_for"
    /\ idx <= Len(current_posts)
    /\ Len(posts) < count
    /\ IF is_collected(current_posts[idx])
         THEN pc' = pc /\ idx' = idx + 1
         ELSE pc' = "gp_view_wait" /\ idx' = idx
    /\ UNCHANGED <<loginVars, raised, sessionVars, getPostsVars, current_posts,
                   pageVars, notGetPosts>>

\* After the sleep of 1: extract_post_data; a post with content is appended
\* and its element id recorded, then sleep 2; a post without content or an
\* exception lets the loop go on (base_scraper.py:171-187).
GP_Extract ==
    /\ pc = "gp_view_wait"
    /\ LET e == current_posts[idx] IN
       \E x \in (IF session = "invalid" THEN {"raises"} ELSE Extractions(e)) :
         /\ content' = IF x = "raises" THEN content ELSE [content EXCEPT ![e] = x]
         /\ IF x # "raises" /\ has_content(x)
              THEN /\ posts' = Append(posts, e)
                   /\ processed_elements' = processed_elements \cup {e}
                   /\ pc' = "gp_post_wait"
                   /\ idx' = idx
              ELSE /\ idx' = idx + 1
                   /\ pc' = "gp_for"
                   /\ UNCHANGED <<posts, processed_elements>>
    /\ UNCHANGED <<loginVars, raised, sessionVars, count, current_posts,
                   loaded, height, budget, notGetPosts>>

\* After the sleep of 2 that follows a collected post (base_scraper.py:183).
GP_NextElement ==
    /\ pc = "gp_post_wait"
    /\ idx' = idx + 1
    /\ pc' = "gp_for"
    /\ UNCHANGED <<loginVars, raised, sessionVars, getPostsVars, current_posts,
                   pageVars, notGetPosts>>

\* The for loop is over (no element left, or the break of lines 158-159):
\* with fewer than count posts natural_scroll is called, which starts the
\* scroll and sleeps 1.2; otherwise the while condition is next
\* (base_scraper.py:189-192, scroll_manager.py:50-82).
GP_EndPass ==
    /\ pc = "gp_for"
    /\ idx > Len(current_posts) \/ ~(Len(posts) < count)
    /\ pc' = IF Len(posts) < count THEN "gp_scroll_wait" ELSE "gp_while"
    /\ UNCHANGED <<loginVars, raised, sessionVars, getPostsVars, current_posts,
                   idx, pageVars, notGetPosts>>

\* natural_scroll returns (scroll_manager.py:84-95): scrolled is the change
\* of window.pageYOffset, and 0 when a script raised.  if not
\* scroll_result['scrolled']: break, else sleep 2 (base_scraper.py:193-196).
\* The window moves only while the page has room left, and the feed may
\* have shown more elements by then.
GP_AfterScroll ==
    /\ pc = "gp_scroll_wait"
    /\ \E scrolled \in BOOLEAN :
         /\ scrolled => budget > 0 /\ session = "valid"
         /\ IF scrolled
              THEN /\ budget' = budget - 1
                   /\ \E n \in loaded..NumElements : loaded' = n
                   /\ pc' = "gp_load_wait"
                   /\ UNCHANGED <<posts, current_posts, idx>>
              ELSE /\ get_posts_returns
                   /\ current_posts' = <<>>
                   /\ idx' = 1
                   /\ UNCHANGED <<budget, loaded>>
    /\ UNCHANGED <<loginVars, raised, sessionVars, count, processed_elements,
                   content, height, notGetPosts>>

\* After the sleep of 2 that follows a scroll (base_scraper.py:196).
GP_Loaded ==
    /\ pc = "gp_load_wait"
    /\ pc' = "gp_while"
    /\ UNCHANGED <<loginVars, raised, sessionVars, getPostsVars, current_posts,
                   idx, pageVars, notGetPosts>>

\* ------------------------------------------------------- session loss
\* The browser session ends under the agent (the window crashes or is
\* closed, the remote end goes away) between two items or during a pull:
\* from then on driver.find_element(By.TAG_NAME, 'body') raises, which is
\* what _is_session_valid reports as False (base_scraper.py:205-210).
SessionLost ==
    /\ pc \in {"settle", "loop", "pause", "gnp_enum", "gnp_for"} \cup DOMAIN PullSleep
    /\ session = "valid"
    /\ session' = "invalid"
    /\ UNCHANGED <<pc, loginVars, posts_processed, post, gnpVars, elapsed,
                   genVars, engVars, last, exit, raised, histVars, pageVars>>
    /\ UNCHANGED <<parseVars, unitVars, getPostsVars, probes, logins, waited, orphaned,
                   passed>>

\* On a session that has ended every driver call of get_next_post raises:
\* find_elements and the height and scroll scripts end the call by its
\* except clause (base_scraper.py:229, 263-276, 286-288), is_displayed and
\* extract_post_data make the for loop pass over the candidate (232-260).
DeadSessionRaises ==
    session = "invalid" =>
        /\ ~(pc = "gnp_enum" /\ pc' = "gnp_for")
        /\ ~(pc = "gnp_for" /\ pc' \in {"gnp_settle", "gnp_scroll_wait"})
        /\ ~(pc = "gnp_settle" /\ (pc' = "pulled" \/ content' # content))
        /\ ~(pc = "gnp_scroll_wait" /\ pc' = "gnp_pause")

NextSession ==
    \/ Login
    \/ Settle
    \/ LoopHead
    \/ GNP_Enumerate /\ DeadSessionRaises
    \/ GNP_ReturnNone
    \/ GNP_Examine /\ DeadSessionRaises
    \/ GNP_Extract /\ DeadSessionRaises
    \/ GNP_Scroll /\ DeadSessionRaises
    \/ GNP_AfterScroll /\ DeadSessionRaises
    \/ GNP_NextPass
    \/ GNP_Exception
    \/ PullTimeout
    \/ StartGeneration
    \/ GenAttempt
    \/ GenBackoff
    \/ GenTimeout
    \/ StartEngage
    \/ EngageStep
    \/ AddReaction
    \/ AddComment
    \/ EngageTimeout
    \/ EngageCancelSwallowed
    \/ InterItemPause
    \/ Cleanup
    \/ SessionLost

\* The run on a browser session that can end at any time of a pull or
\* between two items.
SessionSpec == Init /\ [][NextSession]_vars

\* The browser session ends while get_posts is in one of its sleeps.
GP_SessionLost ==
    /\ pc \in DOMAIN GetPostsSleep
    /\ session = "valid"
    /\ session' = "invalid"
    /\ UNCHANGED <<pc, loginVars, raised, probes, logins, waited, getPostsVars,
                   current_posts, idx, pageVars, notGetPosts>>

GetPostsNext ==
    \/ GP_Probe
    \/ GP_Login
    \/ GP_Settle
    \/ GP_FeedWait
    \/ GP_Enumerate
    \/ GP_Return
    \/ GP_Examine
    \/ GP_Extract
    \/ GP_NextElement
    \/ GP_EndPass
    \/ GP_AfterScroll
    \/ GP_Loaded
    \/ GP_SessionLost

\* A call of get_posts on its own, on a session that can end at any time.
GetPostsSpec == GetPostsInit /\ [][GetPostsNext]_vars

\* Either entry point of the scraper: run is called, or get_posts is.
EntryNext ==
    \/ Next
    \/ GetPostsNext

EntryInit ==
    \/ Init
    \/ GetPostsInit

EntrySpec == EntryInit /\ [][EntryNext]_vars

\* ================================================================ claims
PullStages == {"gnp_enum", "gnp_for", "gnp_settle", "gnp_scroll_wait", "gnp_pause"}
GenerationStages == {"pulled", "gen_call", "gen_backoff"}
EngagementStages == {"generated", "eng_scroll_wait", "eng_pace_wait"}
                      \cup DOMAIN ReactionSleep \cup DOMAIN CommentSleep

\* C1: whenever get_next_post returns a post, its element was not returned
\* by any earlier call of the run, whatever the snapshots showed.
C1_Dedup ==
    [][(pc = "gnp_settle" /\ pc' = "pulled") => post' \notin yielded]_vars

\* C1 witness: the for loop has passed over an element that an earlier call
\* returned and that find_elements found again.
C1_Witness ==
    /\ pc = "gnp_for"
    /\ idx > 1
    /\ current_posts[idx - 1] \in yielded
    /\ Cardinality(yielded) >= 2

C3_Isolation ==
    /\ last.stage = "generation"
         => /\ last.outcome \in {"timeout", "error"}
            /\ pc = "loop"
            /\ posts_processed < max_posts
            /\ exit = "none"
            /\ raised = "none"
            /\ post = gen_skipped
            /\ post \in processed_posts
    /\ pc \in GenerationStages \cup EngagementStages
         => post \in Elements /\ post # gen_skipped

\* C3 witness: after the generation of one item failed, the comment of a
\* later item has been submitted.
C3_Witness ==
    /\ gen_skipped # None
    /\ pc = "comment_posted_wait"
    /\ commented

C5_Teardown == pc = "done" => driver # "open"

\* C6: every execution of run eventually leaves its loop and ends (stated
\* for the run in which only the sleeps take time).
C6_Terminates == <>(pc = "done")

\* C7: after an item whose engagement raised a rate-limit signal, run has
\* paused (cooled down) when it is about to pull again.
C7_Cooldown ==
    (pc = "loop" /\ last.cause = "RateLimitSignal") => last.pause > 0

\* C8: when engage is over for an item (not cut off by the timeout) on
\* which only the reaction sub-step fails, the item ends as engaged with
\* reacted = false and commented = true, and it has been counted.
C8_PartialEngagement ==
    (/\ pc = "loop"
     /\ last.stage = "engagement"
     /\ last.outcome # "timeout"
     /\ fault.at \in ReactionFaults)
        => (last.outcome = "engaged" /\ ~reacted /\ commented /\ last.pause > 0)

C10_AuthenticationFailure ==
    login_check = "login_error" => login_exc = "AuthenticationError"

\* C11: when login has failed, its error is the one that leaves run, run is
\* in or past its finally block, and no item was pulled, sent to the
\* generator or engaged with.
C11_LoginAbort ==
    login_exc # "none"
        => /\ raised = login_exc
           /\ pc \in {"finally", "done"}
           /\ exit = "none"
           /\ posts_processed = 0
           /\ post = None /\ yielded = {} /\ processed_posts = {}
           /\ ai_response = "none" /\ gen_skipped = None
           /\ fault = NoFault /\ ~reacted /\ ~commented
           /\ last = NoResult

\* C11 witness: run is over after a login that failed on a missing form.
C11_Witness ==
    pc = "done" /\ login_exc = "ScrapingError" /\ raised = "ScrapingError"

\* C12: for one item the model is invoked at most max_retries times (the
\* invocation in flight is number attempt + 1); a second has been slept
\* before each invocation after the first; a wait is followed by another
\* invocation; once a result is there the generator is not invoked again;
\* the error after the last failed invocation (or after a prompt that could
\* not be formatted, with no invocation at all) is an AIGenerationError that
\* puts run back at the head of its loop with only that item skipped.
C12_Retry ==
    /\ pc \in {"gen_call", "gen_backoff"}
         => /\ attempt \in 0..(max_retries - 1)
            /\ elapsed = attempt
            /\ ai_response = "none"
    /\ pc = "gen_backoff" => attempt < max_retries - 1
    /\ pc \in EngagementStages => ai_response = "response"
    /\ (last.stage = "generation" /\ last.outcome = "error")
         => /\ last.cause = "AIGenerationError"
            /\ attempt \in {0, max_retries - 1}
            /\ pc = "loop" /\ exit = "none" /\ raised = "none"
            /\ gen_skipped = post

\* C12 witness: the third invocation for an item has failed and run is back
\* at the head of its loop.
C12_Witness ==
    /\ pc = "loop"
    /\ last.stage = "generation" /\ last.outcome = "error"
    /\ attempt = max_retries - 1
    /\ posts_processed >= 1

\* C13: whenever the reaction sub-step of engage ends, failed or not (and
\* engage was not cut off by the timeout of run), engage goes on to the
\* pause that precedes the comment sub-step of the same item.
C13_CommentAfterReaction ==
    [][(/\ pc \in DOMAIN ReactionSleep
        /\ pc' \notin DOMAIN ReactionSleep
        /\ last'.outcome # "timeout")
          => (pc' = "eng_pace_wait" /\ post' = post)]_vars

\* C14: a stop signal that has taken effect did so between two items, not
\* inside a stage, and not with the reaction of an item performed and its
\* comment missing.
C14_StopAtBoundary ==
    raised = "CancelledError"
        => /\ last.stage = "boundary"
           /\ ~(reacted /\ ~commented)

\* C15: the reason run gives for leaving its loop matches the cause: "no
\* more posts" only when get_next_post returned None at the stall limit,
\* "target" only when max_posts items were processed.
C15_ReasonMatchesCause ==
    /\ exit = "no_more_posts" => last.cause = "stall_limit"
    /\ exit = "target" => posts_processed = max_posts

\* C16: no step of the run removes an element from processed_posts; adding
\* an element that is in the set leaves the set as it is; an element in the
\* set is recognised as processed, and the for loop of get_next_post never
\* goes on to extract such an element.
C16_Ledger ==
    /\ [](\A e \in processed_posts :
            is_processed(e) /\ mark_processed(e) = processed_posts)
    /\ [](pc = "gnp_settle" => current_posts[idx] \notin processed_posts)
    /\ [][processed_posts \subseteq processed_posts']_vars

\* C16 witness: a scan has gone through a snapshot of at least two
\* elements, all of them marked by earlier calls, and found none new.
C16_Witness ==
    /\ pc = "gnp_for"
    /\ Len(current_posts) >= 2
    /\ idx > Len(current_posts)
    /\ \A i \in 1..Len(current_posts) : current_posts[i] \in processed_posts

\* C17: whatever the generator's text, the reaction that _parse_response
\* returns is one of the six names; for a text none of whose lines holds a
\* name, and for a text that cannot be parsed, it is LIKE.
C17_ClosedCategory ==
    parsed # NoParse
        => /\ parsed.reaction \in ReactionSet
           /\ (\A i \in DOMAIN response : response[i].names = {})
                 => parsed.reaction = "LIKE"

\* C17 witness: a text of two lines without any reaction name was parsed.
C17_Witness ==
    /\ parsed # NoParse
    /\ Len(response) = 2
    /\ \A i \in DOMAIN response : response[i].names = {} /\ response[i].len > 0
    /\ parsed.reaction = "LIKE"

\* C18: when run is about to pull after a stage error and every item pulled
\* so far, at least three of them, has ended in a stage failure (none was
\* engaged, and no result other than a failure exists for a pulled item),
\* run has paused before that pull.
C18_FailureCooldown ==
    (/\ pc = "loop"
     /\ last.outcome = "error"
     /\ last.stage \in {"generation", "engagement"}
     /\ posts_processed = 0
     /\ Cardinality(yielded) >= 3)
        => last.pause > 0

\* C19: a scroll step of get_next_post after which the DOM holds no new
\* element and the document is not higher than before adds one to
\* scroll_attempt, and scroll_attempt is set back to 0 only by a step that
\* made the document higher or brought a new element.
C19_StallCounted ==
    [][(pc = "gnp_scroll_wait" /\ pc' = "gnp_pause")
         => LET stall == loaded' = loaded /\ height' <= last_height IN
            /\ stall => scroll_attempt' = scroll_attempt + 1
            /\ ~stall => scroll_attempt' = 0]_vars

\* C20: the for loop of get_next_post never takes up again, for scrolling
\* into view and extraction, a candidate whose extraction has already come
\* back without content.
C20_FailedNotRetried ==
    [][(pc = "gnp_for" /\ pc' = "gnp_settle")
         => content[current_posts[idx]] # ""]_vars

C22_SessionChecked ==
    [][(\/ pc = "loop" /\ pc' = "gnp_enum"
        \/ pc = "gnp_for" /\ idx > Len(current_posts) /\ pc' # pc)
         => (session = "valid" \/ probes' > probes)]_vars

\* C23: in a run, and in a call of get_posts that finds the session
\* invalid, login is called at most once; a login that failed is not tried
\* again: its error is on its way to the caller (run re-raises it,
\* get_posts raises ScrapingError for it).
C23_LoginOnce ==
    /\ logins <= 1
    /\ login_exc # "none"
         => \/ pc \in {"finally", "done"} /\ raised = login_exc
            \/ pc = "gp_done" /\ raised = "ScrapingError"

\* C23 witness: get_posts found the session invalid, its one login failed,
\* and the call has ended with the error.
C23_Witness ==
    /\ pc = "gp_done"
    /\ probes = 1
    /\ logins = 1
    /\ login_exc # "none"
    /\ raised = "ScrapingError"

\* C24: when get_posts has logged in to recover the session, it is at the
\* wait for the feed (the first step of the traversal) only after
\* _is_session_valid was called again and on a session that is valid.
C24_ProbedAgain ==
    (pc = "gp_feed_wait" /\ logins > 0)
        => (probes > logins /\ session = "valid")

\* C25: after a login that succeeded (at the start of run, or to recover
\* the session in get_posts), no step of the traversal (waiting for the
\* feed, enumerating, pulling, scrolling) and no later stage is under way
\* before the 10 seconds of the settle delay were slept.
C25_SettleDelay ==
    (/\ logins > 0
     /\ login_exc = "none"
     /\ pc \in PullStages \cup GenerationStages \cup EngagementStages
                 \cup {"gp_feed_wait", "gp_while", "gp_for", "gp_view_wait",
                       "gp_post_wait", "gp_scroll_wait", "gp_load_wait"})
        => waited >= settle_delay

\* C25 witness: get_posts has recovered the session by a login and is
\* collecting its second post.
C25_Witness ==
    /\ pc = "gp_view_wait"
    /\ logins = 1
    /\ login_exc = "none"
    /\ Len(posts) = 1
    /\ waited = settle_delay

\* C26: in every execution of engage the comment sub-step is under way only
\* with the reaction performed; it is entered only from the pause that
\* follows the reaction sub-step, by resuming from its sleep of 2 seconds,
\* and that pause is entered only when _add_reaction returns.
C26_PacedOrder ==
    /\ [](pc \in DOMAIN CommentSleep => reacted)
    /\ [][(pc' \in DOMAIN CommentSleep /\ pc \notin DOMAIN CommentSleep)
            => (/\ pc = "eng_pace_wait"
                /\ pc' = "comment_scroll_wait"
                /\ elapsed' = Slept(2))]_vars
    /\ [][(pc' = "eng_pace_wait" /\ pc # "eng_pace_wait")
            => (pc = "react_done_wait" /\ reacted)]_vars

\* C26 witness: the comment sub-step has begun after the reaction and the
\* pause.
C26_Witness ==
    /\ pc = "comment_scroll_wait"
    /\ reacted
    /\ ~commented
    /\ elapsed >= 2 + ReactionSleep["react_scroll_wait"] + 2

\* C27: when run is back at the head of its loop after an item, whether the
\* item was engaged or its generation or engagement failed or timed out,
\* the inter-item pause has been slept.
C27_PauseAfterEveryItem ==
    (/\ pc = "loop"
     /\ last.stage \in {"generation", "engagement"}
     /\ last.outcome \in {"engaged", "timeout", "error"})
        => last.pause = 2

\* C28: while a pull or a stage of run is under way, no model call of an
\* earlier stage that its timeout ended is still running in the executor
\* thread.
C28_OneStageInFlight ==
    pc \in PullStages \cup GenerationStages \cup EngagementStages => ~orphaned

\* C29: get_next_post never returns an element that an earlier pass found
\* displayed, passed over, and then overtook by returning an element that
\* comes after it in the enumeration (the feed of the model never reorders:
\* find_elements gives the elements in the same order every time).
C29_YieldOrder ==
    [][(pc = "gnp_settle" /\ pc' = "pulled") => passed[post'] # "overtaken"]_vars

\* C30: posts_processed stays within 0..max_posts; it changes only by one,
\* in the step in which engage returns to run for a post that was pulled
\* and for which a response was generated; a step that ends an iteration by
\* a timeout, an error or the end of the feed leaves it as it is.
C30_Counter ==
    /\ [](posts_processed \in 0..max_posts)
    /\ [][posts_processed' # posts_processed
            => (/\ posts_processed' = posts_processed + 1
                /\ pc \in DOMAIN CommentSleep
                /\ pc' = "pause"
                /\ last'.outcome = "engaged"
                /\ post \in yielded
                /\ ai_response = "response"
                /\ reacted /\ commented)]_vars
    /\ [][(last' # last /\ last'.outcome \in {"timeout", "error", "end"})
            => posts_processed' = posts_processed]_vars

\* C30 witness: three items were pulled, one of them failed or timed out,
\* and the second engaged item has just been counted.
C30_Witness ==
    /\ pc = "pause"
    /\ posts_processed >= 2
    /\ Cardinality(yielded) > posts_processed

\* C31: a post reaches the generator only by being returned from
\* get_next_post, which returns no element it returned before; the
\* generation and the engagement of an item are each entered once, for the
\* post that was pulled; and the item of a stage that is under way or that
\* failed or timed out is in processed_posts, so no later pull returns it.
C31_HandledOnce ==
    /\ [][(pc' = "pulled" /\ pc # "pulled")
            => (pc = "gnp_settle" /\ post' \notin yielded)]_vars
    /\ [][(pc' = "gen_call" /\ pc \notin {"gen_call", "gen_backoff"})
            => (pc = "pulled" /\ post' = post)]_vars
    /\ [][(pc' = "generated" /\ pc # "generated")
            => (pc = "gen_call" /\ post' = post)]_vars
    /\ [][(pc' = "eng_scroll_wait" /\ pc # "eng_scroll_wait")
            => (pc = "generated" /\ post' = post)]_vars
    /\ [](pc \in GenerationStages \cup EngagementStages
            => post \in processed_posts)
    /\ [](last.stage \in {"generation", "engagement"}
            => post \in processed_posts)

\* C31 witness: the generation of one item failed or timed out, and the
\* engagement of a later item has begun.
C31_Witness ==
    /\ gen_skipped \in Elements
    /\ pc = "eng_scroll_wait"
    /\ post # gen_skipped
    /\ gen_skipped \in processed_posts

\* C32: the post of a generation or an engagement that is under way has
\* content; every element get_next_post returned has content; and an
\* element whose extraction gave no content is not in processed_posts.
C32_NonEmptyContent ==
    /\ pc \in GenerationStages \cup EngagementStages
         => (post \in Elements /\ has_content(content[post]) /\ content[post] = "text")
    /\ \A e \in yielded : content[e] = "text"
    /\ \A e \in Elements : content[e] = "" => e \notin processed_posts

\* C32 witness: a post is with the generator, and an element before it in
\* the feed was extracted without content and passed over.
C32_Witness ==
    /\ pc = "gen_call"
    /\ content[post] = "text"
    /\ \E e \in Elements : e < post /\ content[e] = ""

\* C33: every element in processed_posts was returned to run by a call of
\* get_next_post that completed; when a call has been cancelled by the
\* timeout, run holds no post and the set is what the completed calls made
\* it.
C33_NothingLost ==
    /\ processed_posts \subseteq yielded
    /\ (last.stage = "pull" /\ last.outcome = "timeout")
         => (pc = "loop" /\ post = None /\ processed_posts = yielded)

\* C33 witness: a call was cancelled by the timeout after earlier calls had
\* returned posts, with an element of the feed still to come.
C33_Witness ==
    /\ last.stage = "pull"
    /\ last.outcome = "timeout"
    /\ Cardinality(yielded) >= 2
    /\ \E e \in 1..loaded : e \notin processed_posts

C36_OnlyConfiguredPlatforms ==
    /\ agent # "none" => (agent = platform /\ agent \in registered)
    /\ main_pc \in {"create", "run"}
         => /\ selected_platform \in registered
            /\ has_credentials(config, selected_platform)
            /\ config.platforms[selected_platform].username
            /\ config.platforms[selected_platform].password
    /\ main_pc = "run" => agent = selected_platform
    /\ (platform # "none" /\ platform \notin registered)
         => (agent = "none" /\ main_raised = "PlatformNotSupportedError")

\* C36 witness: main runs the agent of a platform with both credentials
\* while another platform of the configuration has both credentials too
\* and is not registered.
C36_Witness ==
    /\ main_pc = "run"
    /\ agent = "linkedin"
    /\ has_credentials(config, "facebook")
    /\ ~has_credentials(config, "instagram")

\* C37: the comment that _parse_response returns is never empty: it is the
\* last line that holds no reaction name, is longer than 10 characters and
\* starts with no marker; when there is no such line, the longest line of
\* more than 10 characters; when there is none either, the default text;
\* and for a response that cannot be parsed, the text of the handler.
C37_CommentNonEmpty ==
    parsed # NoParse
        => LET qualifying == {i \in DOMAIN response :
                                /\ response[i].names = {}
                                /\ response[i].len > 10
                                /\ ~response[i].marker}
               long == {i \in DOMAIN response : response[i].raw > 10}
           IN /\ comment_length(response, parsed.comment) > 0
              /\ response = Unparsable <=> parsed.comment.kind = "fallback"
              /\ qualifying # {}
                   => /\ parsed.comment.kind = "line"
                      /\ parsed.comment.at \in qualifying
                      /\ \A i \in qualifying : i <= parsed.comment.at
              /\ (qualifying = {} /\ long # {})
                   => /\ parsed.comment.kind = "longest"
                      /\ parsed.comment.at \in long
                      /\ \A i \in long :
                           response[i].raw <= response[parsed.comment.at].raw
              /\ (response # Unparsable /\ qualifying = {} /\ long = {})
                   => parsed.comment.kind = "default"

\* C37 witness: a text of two lines none of which qualifies, one of them
\* too short and the other starting with a marker, was parsed, and the
\* marked line is the comment.
C37_Witness ==
    /\ parsed # NoParse
    /\ Len(response) = 2
    /\ response[1].len = 8 /\ response[1].raw = 8
    /\ response[2].marker /\ response[2].len = 14 /\ response[2].names = {}
    /\ parsed.comment = [kind |-> "longest", at |-> 2]

\* C38: whatever the page enumerates and however it scrolls, get_posts
\* holds, and returns, at most count posts, each of them with content that
\* is not empty, and no element twice.
C38_GetPostsResult ==
    /\ Len(posts) <= count
    /\ \A i \in DOMAIN posts :
         /\ posts[i] \in Elements
         /\ content[posts[i]] # ""
         /\ posts[i] \in processed_elements
    /\ \A i, j \in DOMAIN posts : posts[i] = posts[j] => i = j
    /\ (pc = "gp_done" /\ raised = "none")
         => Cardinality({posts[i] : i \in DOMAIN posts}) = Len(posts)

\* C38 witness: get_posts returned count posts, two of them, after a scroll
\* step, having passed over an element without content that stood before
\* the first of them.
C38_Witness ==
    /\ pc = "gp_done"
    /\ raised = "none"
    /\ count = 2
    /\ Len(posts) = count
    /\ budget < FeedBudget
    /\ \E e \in Elements : e < posts[1] /\ content[e] = ""

====
